---- MODULE Spec2Model ----
(***************************************************************************)
(* The aggregation / de-duplication / filter pipeline of app.py            *)
(* (search_jerry_moran_news and clean_text).  Text is modelled as a        *)
(* sequence of one-character strings, so that substring tests, the         *)
(* publisher-suffix removal and the character stripping are computed the   *)
(* way the Python code computes them.                                      *)
(***************************************************************************)
EXTENDS Integers, Sequences, FiniteSets, TLC

VARIABLES
    pc,               \* position in search_jerry_moran_news / its caller
    exclude_gov,      \* argument exclude_gov
    exclude_quiver,   \* argument exclude_quiver
    i,                \* 1-based index of the search term being queried
    all_entries,      \* list all_entries
    seen_links,       \* set seen_links
    warnings,         \* number of st.warning calls made so far (line 96)
    j,                \* 1-based position of the second loop in all_entries
    filtered_results, \* list filtered_results
    seen_titles,      \* set seen_titles
    source_dropped,   \* links of the entries that left the loop at line 113 or 115
    results,          \* caller's results (line 143)
    total_found,      \* caller's total_found (line 143)
    ok_records,       \* history: records returned by the queries that did not raise
    fetched,          \* history: number of records the first loop has read
    ct_pc,            \* position of the title-cleaning driver
    ct_title,         \* title given to the title cleaning
    ct_media,         \* publisher name given to the title cleaning
    ct_clean,         \* clean_title (line 118)
    ct_safe,          \* safe_title (line 119)
    ct_clean2,        \* clean_title when safe_title is cleaned again
    ct_safe2,         \* safe_title when safe_title is cleaned again
    ct_resafe         \* clean_text(safe_title)

pipeVars == << pc, exclude_gov, exclude_quiver, i, all_entries, seen_links,
               warnings, j, filtered_results, seen_titles, source_dropped,
               results, total_found, ok_records, fetched >>
cleanVars == << ct_pc, ct_title, ct_media, ct_clean, ct_safe, ct_clean2,
                ct_safe2, ct_resafe >>
vars == << pipeVars, cleanVars >>

-----------------------------------------------------------------------------
(* Bounds of the model *)

\* most records one provider response holds (the code asks for up to 100)
MaxResults == 2
\* most records the first loop reads in one run
MaxFetched == 3
\* longest title the title-cleaning driver is given
MaxTitleLen == 6

-----------------------------------------------------------------------------
(* Characters and text *)

\* \w of the regular expression (line 49): letters, digits, underscore
WordChars ==
    { "a", "b", "c", "d", "e", "f", "g", "h", "i", "j", "k", "l", "m", "n",
      "o", "p", "q", "r", "s", "t", "u", "v", "w", "x", "y", "z", "A", "B",
      "C", "D", "E", "F", "G", "H", "I", "J", "K", "L", "M", "N", "O", "P",
      "Q", "R", "S", "T", "U", "V", "W", "X", "Y", "Z", "0", "1", "2", "3",
      "4", "5", "6", "7", "8", "9", "_" }
\* \s of the regular expression, and what str.strip() trims
WhiteSpace == { " ", "\t", "\n", "\r" }
\* the punctuation the regular expression keeps: - . , : ; ! ? ( ) ' "
KeptPunctuation == { "-", ".", ",", ":", ";", "!", "?", "(", ")", "'", "\"" }

\* the list kansas_outlets
kansas_outlets ==
    << <<"K", "a", "n", "s", "a", "s", " ", "R", "e", "f", "l", "e", "c", "t", "o", "r">>,
       <<"T", "h", "e", " ", "T", "o", "p", "e", "k", "a", " ", "C", "a", "p", "i", "t", "a", "l", "-", "J", "o", "u", "r", "n", "a", "l">>,
       <<"T", "h", "e", " ", "W", "i", "c", "h", "i", "t", "a", " ", "E", "a", "g", "l", "e">>,
       <<"K", "C", "L", "Y", " ", "R", "a", "d", "i", "o">>,
       <<"K", "S", "N", "-", "T", "V">>,
       <<"K", "W", "C", "H">>,
       <<"K", "a", "n", "s", "a", "s", " ", "C", "i", "t", "y", " ", "S", "t", "a", "r">>,
       <<"L", "a", "w", "r", "e", "n", "c", "e", " ", "J", "o", "u", "r", "n", "a", "l", "-", "W", "o", "r", "l", "d">>,
       <<"T", "h", "e", " ", "G", "a", "r", "d", "e", "n", " ", "C", "i", "t", "y", " ", "T", "e", "l", "e", "g", "r", "a", "m">>,
       <<"K", "S", "N", "T", " ", "2", "7", " ", "N", "e", "w", "s">>,
       <<"T", "h", "e", " ", "H", "u", "t", "c", "h", "i", "n", "s", "o", "n", " ", "N", "e", "w", "s">>,
       <<"S", "a", "l", "i", "n", "a", " ", "J", "o", "u", "r", "n", "a", "l">>,
       <<"H", "a", "y", "s", " ", "D", "a", "i", "l", "y", " ", "N", "e", "w", "s">>,
       <<"H", "a", "y", "s", " ", "P", "o", "s", "t">>,
       <<"E", "m", "p", "o", "r", "i", "a", " ", "G", "a", "z", "e", "t", "t", "e">>,
       <<"J", "C", " ", "P", "o", "s", "t">>,
       <<"W", "I", "B", "W">> >>

\* the list search_terms
search_terms ==
    << "Jerry Moran", "Senator Jerry Moran", "Senator Moran", "Sen. Moran",
       "Sen. Jerry Moran", "Sens. Moran", "Sens. Jerry Moran" >>

\* the literal '.gov' (line 112)
GovMarker == <<".", "g", "o", "v">>
\* the literal 'Quiver Quantitative' (line 114)
QuiverMarker ==
    <<"Q", "u", "i", "v", "e", "r", " ", "Q", "u", "a", "n", "t", "i", "t", "a", "t", "i", "v", "e">>
\* the literal " - " of f" - {media}" (line 118)
SuffixLead == <<" ", "-", " ">>

\* s[a..] as Python slices it
DropFirst(s, n) == SubSeq(s, n + 1, Len(s))

\* s.startswith(p)
StartsWith(s, p) == Len(p) <= Len(s) /\ SubSeq(s, 1, Len(p)) = p

\* s.endswith(p)
EndsWith(s, p) ==
    Len(p) <= Len(s) /\ SubSeq(s, Len(s) - Len(p) + 1, Len(s)) = p

\* Python's  sub in s  on str
Contains(sub, s) ==
    \E k \in 0..(Len(s) - Len(sub)) : SubSeq(s, k + 1, k + Len(sub)) = sub

\* s.replace(old, ""): every non-overlapping occurrence of old (non-empty),
\* found left to right, is removed
RECURSIVE replace(_, _)
replace(s, old) ==
    IF Len(s) < Len(old) THEN s
    ELSE IF StartsWith(s, old) THEN replace(DropFirst(s, Len(old)), old)
    ELSE << Head(s) >> \o replace(Tail(s), old)

\* a character the pattern [^\w\s\-\.\,\:\;\!\?\(\)\'\"] does not match
IsKeptChar(c) == c \in WordChars \cup WhiteSpace \cup KeptPunctuation

\* re.sub(r'[^\w\s\-\.\,\:\;\!\?\(\)\'\"]+', '', text)
re_sub(text) == SelectSeq(text, IsKeptChar)

RECURSIVE lstrip(_)
lstrip(s) ==
    IF s # << >> /\ Head(s) \in WhiteSpace THEN lstrip(Tail(s)) ELSE s

RECURSIVE rstrip(_)
rstrip(s) ==
    IF s # << >> /\ s[Len(s)] \in WhiteSpace
    THEN rstrip(SubSeq(s, 1, Len(s) - 1)) ELSE s

\* str.strip()
strip(s) == rstrip(lstrip(s))

\* a clean_text that removes only the first run of unwanted characters
clean_text_FirstRunOnly(text) ==
    LET bad == { k \in 1..Len(text) : ~IsKeptChar(text[k]) } IN
    IF bad = {} THEN strip(text)
    ELSE LET f == CHOOSE k \in bad : \A m \in bad : k <= m
             l == CHOOSE k \in f..Len(text) :
                    /\ \A m \in f..k : m \in bad
                    /\ (k + 1) \notin bad
         IN  strip(SubSeq(text, 1, f - 1) \o DropFirst(text, l))

\* clean_text (lines 47-50)
clean_text(text) == strip(re_sub(text))

\* f" - {media}" (line 118)
PublisherSuffix(media) == SuffixLead \o media

\* title.replace(f" - {media}", "") (line 118)
StripPublisherSuffix(title, media) == replace(title, PublisherSuffix(media))

\* safe_title of a title and publisher name (lines 118-119)
SafeTitle(title, media) == clean_text(StripPublisherSuffix(title, media))

\* a regional test that wants the publisher name to equal an outlet name
IsKansas_Exact(media) ==
    \E k \in 1..Len(kansas_outlets) : kansas_outlets[k] = media

\* any(kansas_outlet in media for kansas_outlet in kansas_outlets) (line 128)
IsKansas(media) ==
    \E k \in 1..Len(kansas_outlets) : Contains(kansas_outlets[k], media)

\* a '.gov' test that ignores the exclude_gov switch
GovExcluded_IgnoresSwitch(media) == Contains(GovMarker, media)

\* exclude_gov and '.gov' in media (line 112)
GovExcluded(media) == exclude_gov /\ Contains(GovMarker, media)

\* exclude_quiver and 'Quiver Quantitative' in media (line 114)
QuiverExcluded(media) == exclude_quiver /\ Contains(QuiverMarker, media)

\* a title test that never finds the title
TitleSeen_Never(title, titles) == FALSE

\* safe_title in seen_titles (line 122)
TitleSeen(title, titles) == title \in titles

-----------------------------------------------------------------------------
(* The provider's records *)

Title1 ==
    <<"F", "a", "r", "m", " ", "B", "i", "l", "l", " ", "-", " ", "K", "W", "C", "H", " ", "1", "2">>
Publisher1 == <<"K", "W", "C", "H", " ", "1", "2">>
Title2 == <<"F", "a", "r", "m", " ", "B", "i", "l", "l">>
Publisher2 == <<"E", "x", "a", "m", "p", "l", "e", ".", "g", "o", "v">>
Title3 == <<"V", "o", "t", "e", " ", "|", " ", "T", "a", "l", "l", "y">>
Publisher3 == QuiverMarker
Title4 ==
    <<"F", "a", "r", "m", " ", "B", "i", "l", "l", " ", "-", " ", "C", "N", "N", ".", "G", "O", "V">>
Publisher4 == <<"C", "N", "N", ".", "G", "O", "V">>

\* what reading an absent key of a record gives: a KeyError
NoKey == "KeyError"

\* one record of a provider response (the keys read at lines 86-91)
RawEntry(t, u, p, d) ==
    [ title |-> t, url |-> u, publisher |-> p, published |-> d ]

\* well-formed records: a regional outlet, a .gov publisher with the same
\* headline, a record of the named source, and, under the first one's link,
\* a publisher whose name has ".GOV" in capitals
GoodEntries ==
    { RawEntry(Title1, "https://x/a1", Publisher1, "Mon"),
      RawEntry(Title2, "https://x/a2", Publisher2, "Tue"),
      RawEntry(Title3, "https://x/a3", Publisher3, "Wed"),
      RawEntry(Title4, "https://x/a1", Publisher4, "Thu") }

\* a malformed record: it has no 'url' key
BadEntries == { RawEntry(Title2, NoKey, Publisher2, "Fri") }

\* the responses get_news may return
Responses ==
    UNION { [ 1..n -> GoodEntries \cup BadEntries ] : n \in 0..MaxResults }

\* the body of the try block after get_news returned (lines 84-94), from
\* record k on: the lists as they are when the loop ends or a read raises
RECURSIVE MergeResults(_, _, _, _)
MergeResults(rs, k, entries, links) ==
    IF k > Len(rs)
    THEN [ entries |-> entries, links |-> links, raised |-> FALSE,
           read |-> Len(rs) ]
    ELSE IF rs[k].url = NoKey
    THEN [ entries |-> entries, links |-> links, raised |-> TRUE,
           read |-> k ]
    ELSE IF rs[k].url \notin links
    THEN MergeResults(rs, k + 1,
            Append(entries, [ title     |-> rs[k].title,
                              link      |-> rs[k].url,
                              source    |-> rs[k].publisher,
                              published |-> rs[k].published ]),
            links \cup { rs[k].url })
    ELSE MergeResults(rs, k + 1, entries, links)

-----------------------------------------------------------------------------
(* search_jerry_moran_news *)

CleanIdle ==
    /\ ct_pc = "idle"
    /\ ct_title = << >> /\ ct_media = << >>
    /\ ct_clean = << >> /\ ct_safe = << >>
    /\ ct_clean2 = << >> /\ ct_safe2 = << >> /\ ct_resafe = << >>

\* the state at the first loop's start (lines 52-72, 103-104)
Init ==
    /\ pc = "query"
    /\ exclude_gov \in BOOLEAN
    /\ exclude_quiver \in BOOLEAN
    /\ i = 1
    /\ all_entries = << >>
    /\ seen_links = {}
    /\ warnings = 0
    /\ j = 0
    /\ filtered_results = << >>
    /\ seen_titles = {}
    /\ source_dropped = {}
    /\ results = << >>
    /\ total_found = 0
    /\ ok_records = << >>
    /\ fetched = 0
    /\ CleanIdle

\* one pass of the first loop in which get_news raises (lines 78-83, 95-96)
QueryRaises ==
    /\ pc = "query"
    /\ i <= Len(search_terms)
    /\ warnings' = warnings + 1
    /\ i' = i + 1
    /\ UNCHANGED << pc, exclude_gov, exclude_quiver, all_entries, seen_links,
                    j, filtered_results, seen_titles, source_dropped,
                    results, total_found, ok_records, fetched >>
    /\ UNCHANGED cleanVars

\* one pass of the first loop in which get_news returns rs (lines 78-96);
\* raised tells whether reading one of its records raises
QueryReturns(rs, raised) ==
    /\ pc = "query"
    /\ i <= Len(search_terms)
    /\ fetched + Len(rs) <= MaxFetched
    /\ LET m == MergeResults(rs, 1, all_entries, seen_links) IN
         /\ m.raised = raised
         /\ all_entries' = m.entries
         /\ seen_links' = m.links
         /\ warnings' = IF m.raised THEN warnings + 1 ELSE warnings
         /\ ok_records' = IF m.raised THEN ok_records ELSE ok_records \o rs
         /\ fetched' = fetched + m.read
    /\ i' = i + 1
    /\ UNCHANGED << pc, exclude_gov, exclude_quiver, j, filtered_results,
                    seen_titles, source_dropped, results, total_found >>
    /\ UNCHANGED cleanVars

\* a response all of whose records are read
QueryOk == \E rs \in Responses : QueryReturns(rs, FALSE)

\* a response in which reading a record raises
QueryMalformed == \E rs \in Responses : QueryReturns(rs, TRUE)

\* the first loop is over; the second one starts (lines 98-106)
StartFilter ==
    /\ pc = "query"
    /\ i > Len(search_terms)
    /\ pc' = "filter"
    /\ j' = 1
    /\ filtered_results' = << >>
    /\ seen_titles' = {}
    /\ UNCHANGED << exclude_gov, exclude_quiver, i, all_entries, seen_links,
                    warnings, source_dropped, results, total_found,
                    ok_records, fetched >>
    /\ UNCHANGED cleanVars

\* a line-113 exit that first records the entry's cleaned title as seen
SkipGov_RegistersTitle ==
    /\ pc = "filter"
    /\ j <= Len(all_entries)
    /\ GovExcluded(all_entries[j].source)
    /\ source_dropped' = source_dropped \cup { all_entries[j].link }
    /\ seen_titles' = seen_titles \cup
            { SafeTitle(all_entries[j].title, all_entries[j].source) }
    /\ j' = j + 1
    /\ UNCHANGED << pc, exclude_gov, exclude_quiver, i, all_entries,
                    seen_links, warnings, filtered_results, results,
                    total_found, ok_records, fetched >>
    /\ UNCHANGED cleanVars

\* the pass of the second loop leaves at the continue of line 113
SkipGov ==
    /\ pc = "filter"
    /\ j <= Len(all_entries)
    /\ GovExcluded(all_entries[j].source)
    /\ source_dropped' = source_dropped \cup { all_entries[j].link }
    /\ j' = j + 1
    /\ UNCHANGED << pc, exclude_gov, exclude_quiver, i, all_entries,
                    seen_links, warnings, filtered_results, seen_titles,
                    results, total_found, ok_records, fetched >>
    /\ UNCHANGED cleanVars

\* the pass of the second loop leaves at the continue of line 115
SkipQuiver ==
    /\ pc = "filter"
    /\ j <= Len(all_entries)
    /\ ~GovExcluded(all_entries[j].source)
    /\ QuiverExcluded(all_entries[j].source)
    /\ source_dropped' = source_dropped \cup { all_entries[j].link }
    /\ j' = j + 1
    /\ UNCHANGED << pc, exclude_gov, exclude_quiver, i, all_entries,
                    seen_links, warnings, filtered_results, seen_titles,
                    results, total_found, ok_records, fetched >>
    /\ UNCHANGED cleanVars

\* the pass of the second loop leaves at the continue of line 123
SkipSeenTitle ==
    /\ pc = "filter"
    /\ j <= Len(all_entries)
    /\ ~GovExcluded(all_entries[j].source)
    /\ ~QuiverExcluded(all_entries[j].source)
    /\ TitleSeen(SafeTitle(all_entries[j].title, all_entries[j].source),
                 seen_titles)
    /\ j' = j + 1
    /\ UNCHANGED << pc, exclude_gov, exclude_quiver, i, all_entries,
                    seen_links, warnings, filtered_results, seen_titles,
                    source_dropped, results, total_found, ok_records,
                    fetched >>
    /\ UNCHANGED cleanVars

\* the pass of the second loop runs to its end (lines 106-136)
KeepEntry ==
    /\ pc = "filter"
    /\ j <= Len(all_entries)
    /\ ~GovExcluded(all_entries[j].source)
    /\ ~QuiverExcluded(all_entries[j].source)
    /\ LET entry == all_entries[j]
           media == entry.source
           safe_title == SafeTitle(entry.title, media)
       IN  /\ ~TitleSeen(safe_title, seen_titles)
           /\ seen_titles' = seen_titles \cup { safe_title }
           /\ filtered_results' =
                Append(filtered_results,
                       [ title     |-> safe_title,
                         media     |-> clean_text(media),
                         link      |-> entry.link,
                         is_kansas |-> IsKansas(media),
                         published |-> entry.published ])
    /\ j' = j + 1
    /\ UNCHANGED << pc, exclude_gov, exclude_quiver, i, all_entries,
                    seen_links, warnings, source_dropped, results,
                    total_found, ok_records, fetched >>
    /\ UNCHANGED cleanVars

\* a raw count that reports how many merged records were removed
RawCount_Removed == Len(all_entries) - Len(filtered_results)

\* len(all_entries) (line 138)
RawCount == Len(all_entries)

\* return filtered_results, len(all_entries) (lines 138, 143)
Return ==
    /\ pc = "filter"
    /\ j > Len(all_entries)
    /\ results' = filtered_results
    /\ total_found' = RawCount
    /\ pc' = "done"
    /\ UNCHANGED << exclude_gov, exclude_quiver, i, all_entries, seen_links,
                    warnings, j, filtered_results, seen_titles,
                    source_dropped, ok_records, fetched >>
    /\ UNCHANGED cleanVars

Next ==
    \/ QueryRaises
    \/ QueryOk
    \/ QueryMalformed
    \/ StartFilter
    \/ SkipGov
    \/ SkipQuiver
    \/ SkipSeenTitle
    \/ KeepEntry
    \/ Return

Spec == Init /\ [][Next]_vars

-----------------------------------------------------------------------------
(* Title cleaning on its own: lines 118-119 applied to a title, and then    *)
(* applied again to the title they gave                                     *)

\* the characters the titles are made of: a letter, the publisher's letter,
\* a blank, a hyphen and a character clean_text removes
TitleChars == { "a", "K", " ", "-", "|" }

Titles == UNION { [ 1..n -> TitleChars ] : n \in 0..MaxTitleLen }

\* a one-letter publisher name, and one holding a character clean_text removes
Publishers == { << "K" >>, << "K", "|" >> }

PipeIdle ==
    /\ pc = "idle"
    /\ exclude_gov = FALSE /\ exclude_quiver = FALSE
    /\ i = 0 /\ j = 0 /\ warnings = 0 /\ total_found = 0
    /\ all_entries = << >> /\ filtered_results = << >> /\ results = << >>
    /\ ok_records = << >> /\ fetched = 0
    /\ seen_links = {} /\ seen_titles = {} /\ source_dropped = {}

InitClean ==
    /\ PipeIdle
    /\ ct_pc = "start"
    /\ ct_title \in Titles
    /\ ct_media \in Publishers
    /\ ct_clean = << >> /\ ct_safe = << >>
    /\ ct_clean2 = << >> /\ ct_safe2 = << >> /\ ct_resafe = << >>

\* clean_title = title.replace(f" - {media}", "") (line 118)
CtStrip ==
    /\ ct_pc = "start"
    /\ ct_clean' = StripPublisherSuffix(ct_title, ct_media)
    /\ ct_pc' = "stripped"
    /\ UNCHANGED << ct_title, ct_media, ct_safe, ct_clean2, ct_safe2,
                    ct_resafe >>
    /\ UNCHANGED pipeVars

\* safe_title = clean_text(clean_title) (line 119)
CtClean ==
    /\ ct_pc = "stripped"
    /\ ct_safe' = clean_text(ct_clean)
    /\ ct_pc' = "cleaned"
    /\ UNCHANGED << ct_title, ct_media, ct_clean, ct_clean2, ct_safe2,
                    ct_resafe >>
    /\ UNCHANGED pipeVars

\* lines 118-119 on safe_title with the same media, and clean_text (lines
\* 47-50) on safe_title
CtAgain ==
    /\ ct_pc = "cleaned"
    /\ ct_clean2' = StripPublisherSuffix(ct_safe, ct_media)
    /\ ct_safe2' = clean_text(StripPublisherSuffix(ct_safe, ct_media))
    /\ ct_resafe' = clean_text(ct_safe)
    /\ ct_pc' = "done"
    /\ UNCHANGED << ct_title, ct_media, ct_clean, ct_safe >>
    /\ UNCHANGED pipeVars

NextClean == CtStrip \/ CtClean \/ CtAgain

SpecClean == InitClean /\ [][NextClean]_vars

-----------------------------------------------------------------------------
(* Properties *)

\* the source-filtering rule as the specification words it
SourceRule(media) ==
    \/ exclude_gov /\ Contains(GovMarker, media)
    \/ exclude_quiver /\ Contains(QuiverMarker, media)

\* the cleaned title of a merged entry
CleanedTitle(e) == clean_text(replace(e.title, SuffixLead \o e.source))

\* positions of all_entries the second loop has been through
Processed == 1..(j - 1)

LinksOf(rs) == { rs[k].link : k \in 1..Len(rs) }

TitlesOf(rs) == { rs[k].title : k \in 1..Len(rs) }

\* the merged entry that carries a link
EntryOf(link) ==
    all_entries[CHOOSE k \in 1..Len(all_entries) : all_entries[k].link = link]

NoTwoAlike(rs) ==
    \A a, b \in 1..Len(rs) :
        a # b => rs[a].link # rs[b].link /\ rs[a].title # rs[b].title

\* a is a subsequence of b
RECURSIVE IsSubseq(_, _)
IsSubseq(a, b) ==
    IF a = << >> THEN TRUE
    ELSE IF b = << >> THEN FALSE
    ELSE IF Head(a) = Head(b) THEN IsSubseq(Tail(a), Tail(b))
    ELSE IsSubseq(a, Tail(b))

\* what the link-level merge makes of the records of the queries that did
\* not raise
MergedOk == MergeResults(ok_records, 1, << >>, {}).entries

\* C1: the result list, while it is built and when it is returned, has no two
\* entries with the same link and no two with the same cleaned title, the
\* title of an entry being its record's title without " - {publisher}" and
\* without the stripped characters.
C1_NoDuplicateLinkOrTitle ==
    /\ NoTwoAlike(filtered_results)
    /\ NoTwoAlike(results)
    /\ \A k \in 1..Len(filtered_results) :
          /\ filtered_results[k].link \in LinksOf(all_entries)
          /\ filtered_results[k].title =
                CleanedTitle(EntryOf(filtered_results[k].link))

\* C1 witness: a run has returned after a record was skipped for its link
\* and another one for its cleaned title.
C1_Witness ==
    /\ pc = "done"
    /\ Len(results) >= 1
    /\ Len(ok_records) > Len(all_entries)
    /\ \E k \in 1..Len(all_entries) :
          /\ ~SourceRule(all_entries[k].source)
          /\ all_entries[k].link \notin LinksOf(results)

\* C2: a query that fails adds nothing to the merged collection, so the
\* merged collection and the raw count are those built from the records of
\* the queries that did not fail.
C2_FailedQueryContributesNothing ==
    /\ pc \in { "query", "filter", "done" } => all_entries = MergedOk
    /\ pc = "done" => total_found = Len(MergedOk)
    /\ pc = "done" => LinksOf(results) \subseteq LinksOf(MergedOk)

\* C3: when all seven queries have failed, the run has gone through the
\* seven terms, given seven warnings, and returns an empty list and 0.
C3_AllFailedReturnsEmpty ==
    (pc = "done" /\ warnings = Len(search_terms)) =>
        /\ i = Len(search_terms) + 1
        /\ results = << >>
        /\ total_found = 0

\* C4: an entry the second loop has been through was dropped by source
\* filtering exactly when exclude_gov is set and its raw publisher name
\* contains ".gov", or exclude_quiver is set and it contains
\* "Quiver Quantitative"; a dropped entry is not in the result.
C4_SourceFilterRule ==
    \A k \in 1..Len(all_entries) :
        LET e == all_entries[k] IN
        /\ e.link \in source_dropped <=>
              /\ k \in Processed
              /\ \/ exclude_gov /\ Contains(GovMarker, e.source)
                 \/ exclude_quiver /\ Contains(QuiverMarker, e.source)
        /\ e.link \in source_dropped => e.link \notin LinksOf(filtered_results)

\* C4 witness: with exclude_gov set and exclude_quiver clear, a ".gov"
\* publisher was dropped and a "Quiver Quantitative" one and a ".GOV" one
\* were returned.
C4_Witness ==
    /\ pc = "done"
    /\ exclude_gov /\ ~exclude_quiver
    /\ \E e \in LinksOf(all_entries) :
          e \in source_dropped /\ Contains(GovMarker, EntryOf(e).source)
    /\ \E e \in LinksOf(results) : Contains(QuiverMarker, EntryOf(e).source)
    /\ \E e \in LinksOf(results) : EntryOf(e).source = Publisher4

\* C5 as stated: cleaning the cleaned title again, with the same publisher
\* name, gives the cleaned title.
C5_CleaningIsIdempotent == ct_pc = "done" => ct_safe2 = ct_safe

\* C5 amended: clean_text is idempotent, and cleaning the cleaned title again
\* gives the cleaned title exactly when the cleaned title holds no
\* " - {publisher}".
C5_IdempotentUnlessSuffixRemains ==
    ct_pc = "done" =>
        /\ ct_resafe = ct_safe
        /\ ct_safe2 = ct_safe <=>
              ~Contains(SuffixLead \o ct_media, ct_safe)

\* C5 witness: a title lost its publisher suffix and stripped characters,
\* and cleaning it again left it as it was.
C5_Witness ==
    /\ ct_pc = "done"
    /\ ct_clean # ct_title
    /\ ct_safe # ct_clean
    /\ ct_safe # << >>
    /\ ct_safe2 = ct_safe

\* C6: the returned list is no longer than the returned raw count, which is
\* the length of the merged collection, whose links are all different.
C6_ResultsWithinRawCount ==
    /\ \A a, b \in 1..Len(all_entries) :
          a # b => all_entries[a].link # all_entries[b].link
    /\ LinksOf(all_entries) = seen_links
    /\ pc = "done" =>
          /\ total_found = Len(all_entries)
          /\ Len(results) <= total_found

\* C6 witness: a run returned some articles, fewer than the raw count.
C6_Witness ==
    /\ pc = "done"
    /\ Len(results) > 0
    /\ Len(results) < total_found

C8_OnlyTrailingSuffixRemoved ==
    ct_pc \in { "stripped", "cleaned", "done" } =>
        LET suffix == SuffixLead \o ct_media IN
        IF EndsWith(ct_title, suffix)
        THEN ct_clean = SubSeq(ct_title, 1, Len(ct_title) - Len(suffix))
        ELSE ct_clean = ct_title

\* C9: the returned links are a subsequence of the links of the records of
\* the queries that did not fail, taken in query order and then provider
\* order; a merged entry is the earliest of those records with its link; a
\* returned article is the earliest unfiltered merged entry with its title.
C9_FirstWinsStableOrder ==
    pc = "done" =>
        /\ IsSubseq([ k \in 1..Len(results) |-> results[k].link ],
                    [ k \in 1..Len(ok_records) |-> ok_records[k].url ])
        /\ \A k \in 1..Len(all_entries) :
              \E m \in 1..Len(ok_records) :
                  /\ ok_records[m].url = all_entries[k].link
                  /\ ok_records[m].title = all_entries[k].title
                  /\ \A n \in 1..(m - 1) :
                        ok_records[n].url # all_entries[k].link
        /\ \A k \in 1..Len(all_entries) :
              all_entries[k].link \in LinksOf(results) =>
                  \A m \in 1..(k - 1) :
                      \/ SourceRule(all_entries[m].source)
                      \/ CleanedTitle(all_entries[m]) #
                            CleanedTitle(all_entries[k])

\* C10, the state part: the seen titles are the titles of the results so
\* far, and an entry the source rule lets through, with no earlier such
\* entry of the same cleaned title, is in the result.
C10_OnlyReturnedTitlesSeen ==
    /\ pc \in { "filter", "done" } => seen_titles = TitlesOf(filtered_results)
    /\ \A k \in Processed :
          LET e == all_entries[k] IN
          ( /\ ~SourceRule(e.source)
            /\ \A m \in 1..(k - 1) :
                  \/ SourceRule(all_entries[m].source)
                  \/ CleanedTitle(all_entries[m]) # CleanedTitle(e) )
          => e.link \in LinksOf(filtered_results)

\* C10, the step part: a pass of the second loop over an entry the source
\* rule drops changes neither seen_titles nor filtered_results.
C10_SourceDropStep ==
    ( /\ pc = "filter"
      /\ j <= Len(all_entries)
      /\ SourceRule(all_entries[j].source) )
    => /\ seen_titles' = seen_titles
       /\ filtered_results' = filtered_results

\* C10: a record dropped by source filtering leaves the seen titles and the
\* result list unchanged, only returned records have their title among the
\* seen titles, and a later record of the same cleaned title that passes
\* the filters is returned.
C10_SourceDropLeavesTitles ==
    []C10_OnlyReturnedTitlesSeen /\ [][C10_SourceDropStep]_vars

\* C10 witness: a run returned an entry that came after a source-dropped
\* entry of the same cleaned title.
C10_Witness ==
    /\ pc = "done"
    /\ \E k \in 1..Len(all_entries) : \E m \in 1..(k - 1) :
          /\ all_entries[m].link \in source_dropped
          /\ CleanedTitle(all_entries[m]) = CleanedTitle(all_entries[k])
          /\ all_entries[k].link \in LinksOf(results)

====
